---- MODULE Spec2Model ----
(***************************************************************************)
(* A model of obp/ope/meta.py: the OffPolicyEvaluation orchestrator.       *)
(*                                                                         *)
(* An orchestrator is a dataclass holding the logged bandit feedback, the  *)
(* list of estimators, an optional regression model and (after             *)
(* __post_init__) the name-keyed registry ope_estimators_.  Every public   *)
(* method is one action; what the method calls (the regression model, the  *)
(* estimators, pandas) is computed by operators, and the calls it makes    *)
(* are recorded, in order, in the record of the call.                      *)
(*                                                                         *)
(* Conventions.  Optional values are <<>> (None) or <<v>>.  A float is a   *)
(* normalised fraction <<n, d>> with d > 0; <<1, 0>> is inf and <<0, 0>>   *)
(* is nan.  Python's round i is index i + 1 of a sequence here; slot       *)
(* positions and action ids keep their 0-based values.                     *)
(***************************************************************************)
EXTENDS Integers, Sequences, FiniteSets, TLC

VARIABLES
    bandit_feedback,   \* [orchestrator -> the logged feedback]
    ope_estimators,    \* [orchestrator -> the list of estimators supplied]
    regression_model,  \* [orchestrator -> None or <<the model object's state>>]
    ope_estimators_,   \* [orchestrator -> registry: sequence of <<name, index in ope_estimators>>]
    pc,                \* [orchestrator -> "new" (fields assigned) | "ready" (after __post_init__)]
    last_call,         \* None or <<the record of the most recent public call>>
    previous           \* how the most recent call relates to the one before it

vars == <<bandit_feedback, ope_estimators, regression_model, ope_estimators_, pc,
          last_call, previous>>

----------------------------------------------------------------------------
(* Bounds of the model. *)

MaxRounds == 2        \* n_rounds ranges over 1..MaxRounds
MaxEstimators == 2    \* the estimator list has 0..MaxEstimators entries
MaxBootstrap == 3     \* n_bootstrap_samples ranges over 1..MaxBootstrap
MaxSeed == 1          \* random_state ranges over None and 0..MaxSeed

----------------------------------------------------------------------------
(* Optional values and floats. *)

None == <<>>
Some(x) == <<x>>

Abs(x) == IF x < 0 THEN -x ELSE x

RECURSIVE GCD(_, _)
GCD(a, b) == IF b = 0 THEN a ELSE GCD(b, a % b)

\* The float n / d, d > 0, in lowest terms.
Frac(n, d) == LET g == GCD(Abs(n), d) IN <<n \div g, d \div g>>

Inf == <<1, 0>>
NaN == <<0, 0>>
IsFinite(x) == x[2] > 0

FAdd(x, y) == Frac(x[1] * y[2] + y[1] * x[2], x[2] * y[2])
FSub(x, y) == Frac(x[1] * y[2] - y[1] * x[2], x[2] * y[2])
FMul(x, y) == Frac(x[1] * y[1], x[2] * y[2])
FAbs(x) == <<Abs(x[1]), x[2]>>
FLeq(x, y) == x[1] * y[2] <= y[1] * x[2]
FLess(x, y) == x[1] * y[2] < y[1] * x[2]
\* x / y for finite x and finite nonzero y.
FDiv(x, y) == IF y[1] > 0 THEN Frac(x[1] * y[2], x[2] * y[1])
                          ELSE Frac(-(x[1] * y[2]), x[2] * (-y[1]))
FFloor(x) == x[1] \div x[2]

RECURSIVE FSum(_)
FSum(s) == IF s = <<>> THEN <<0, 1>> ELSE FAdd(Head(s), FSum(Tail(s)))

\* numpy.mean of a non-empty sequence of floats.
FMean(s) == FDiv(FSum(s), <<Len(s), 1>>)

Range(s) == {s[i] : i \in DOMAIN s}

----------------------------------------------------------------------------
(* Results of a computation: a value, or an exception raised, together     *)
(* with the calls made on collaborators while computing it (events) and    *)
(* the payloads _create_estimator_inputs built (payloads).                 *)

Ok(v, ev, pl) ==
    [status |-> "ok", exc |-> "", value |-> v, events |-> ev, payloads |-> pl]
Raised(e, ev, pl) ==
    [status |-> "raised", exc |-> e, value |-> None, events |-> ev, payloads |-> pl]

\* One call on a collaborator: what was called, on which estimator (its
\* index in ope_estimators, 0 for the regression model and for the
\* orchestrator itself) and with the payload built by which invocation of
\* _create_estimator_inputs in this public call (0 when none is passed).
Event(what, est, payload_id) == [ev |-> what, est |-> est, payload |-> payload_id]

\* The events of a nested call, its payloads numbered after the k payloads
\* the enclosing call has built so far.
Renumber(events, k) ==
    [j \in DOMAIN events |->
        IF events[j].payload = 0 THEN events[j]
        ELSE [events[j] EXCEPT !.payload = @ + k]]

----------------------------------------------------------------------------
(* The logged bandit feedback (obp.dataset.BanditFeedback): a dictionary   *)
(* with n_rounds, n_actions and the per-round action, position, reward and *)
(* pscore.                                                                 *)

Rewards == {0, 1}

\* The feedbacks of 1..MaxRounds rounds over two actions, with the given
\* slot positions, rewards and propensities.
BanditFeedbacks(positions, rewards, pscores) ==
    UNION {[n_rounds : {n}, n_actions : {2},
            action : [1..n -> {0, 1}], position : [1..n -> positions],
            reward : [1..n -> rewards], pscore : [1..n -> pscores]]
           : n \in 1..MaxRounds}

----------------------------------------------------------------------------
(* obp.ope.regression_model.RegressionModel: fitted or not, fit, predict.  *)
(* The object's state is its fitted flag, the parameters fit learnt (one   *)
(* expected reward per action) and the number of times fit ran on it       *)
(* since it was handed to the orchestrator.                                *)

Unfitted == [fitted |-> FALSE, params |-> <<>>, n_fit |-> 0]
Fitted(params) == [fitted |-> TRUE, params |-> params, n_fit |-> 0]

check_is_fitted(model) == model.fitted

\* fit: the expected reward of an action is 1 when the log holds a rewarded
\* round of that action.
RegressionModel_fit(model, feedback) ==
    [fitted |-> TRUE,
     params |-> [a \in 1..feedback.n_actions |->
                    IF \E i \in 1..feedback.n_rounds :
                          feedback.action[i] = a - 1 /\ feedback.reward[i] = 1
                    THEN 1 ELSE 0],
     n_fit |-> model.n_fit + 1]

\* predict: per round, the expected reward of the action the evaluation
\* policy shows at the logged position; a model that was never fitted
\* raises.
RegressionModel_predict(model, feedback, selected_actions) ==
    IF ~model.fitted THEN Raised("NotFittedError", <<>>, <<>>)
    ELSE Ok([i \in 1..feedback.n_rounds |->
                <<model.params[selected_actions[i][feedback.position[i] + 1] + 1], 1>>],
            <<>>, <<>>)

----------------------------------------------------------------------------
(* obp.ope.estimators.BaseOffPolicyEstimator: estimator_name,              *)
(* _estimate_round_rewards, estimate_policy_value, estimate_interval.      *)
(* An estimator is its declared name, its kind (the formula of its round   *)
(* rewards) and the type of the float estimate_policy_value returns.       *)

IPW == [estimator_name |-> "ipw", kind |-> "ipw", float_type |-> "numpy"]
DM == [estimator_name |-> "dm", kind |-> "dm", float_type |-> "numpy"]
\* A caller's own estimator that declares the name "ipw" too and returns a
\* Python float.
Custom == [estimator_name |-> "ipw", kind |-> "avg", float_type |-> "python"]

\* A caller's own estimator with a name of its own.
Unweighted == [estimator_name |-> "avg", kind |-> "avg", float_type |-> "numpy"]

EstimatorPool == {IPW, DM, Custom}

EstimatorLists == UNION {[1..n -> EstimatorPool] : n \in 0..MaxEstimators}

\* The payload is passed as keyword arguments: an estimator that needs
\* estimated_rewards_by_reg_model and is not given it raises TypeError.
Estimator_estimate_round_rewards(est, inputs) ==
    LET n == Len(inputs.reward) IN
    CASE est.kind = "ipw" ->
            Ok([i \in 1..n |->
                   IF inputs.action_match[i]
                   THEN FDiv(<<inputs.reward[i], 1>>, inputs.pscore[i])
                   ELSE <<0, 1>>], <<>>, <<>>)
      [] est.kind = "avg" ->
            Ok([i \in 1..n |->
                   IF inputs.action_match[i] THEN <<inputs.reward[i], 1>> ELSE <<0, 1>>],
               <<>>, <<>>)
      [] est.kind = "dm" ->
            IF inputs.estimated_rewards_by_reg_model = None
            THEN Raised("TypeError", <<>>, <<>>)
            ELSE Ok(inputs.estimated_rewards_by_reg_model[1], <<>>, <<>>)

Estimator_estimate_policy_value(est, inputs) ==
    LET rr == Estimator_estimate_round_rewards(est, inputs) IN
    IF rr.status = "raised" THEN rr ELSE Ok(FMean(rr.value), <<>>, <<>>)

\* numpy.random.RandomState(seed): a deterministic stream per seed; its
\* first k outputs.
RECURSIVE RandomState(_, _)
RandomState(seed, k) ==
    IF k = 0 THEN <<>>
    ELSE LET before == RandomState(seed, k - 1)
             state == IF k = 1 THEN seed ELSE before[k - 1]
         IN Append(before, (13 * state + 7) % 64)

\* RandomState.choice over n items from the stream's k-th output: an index
\* in 1..n.
Choice(stream, k, n) == ((stream[k] \div 4) % n) + 1

\* The sequence s of floats in ascending order.
SortFloats(s) ==
    LET rank == [i \in DOMAIN s |->
                    Cardinality({j \in DOMAIN s :
                        FLess(s[j], s[i]) \/ (s[j] = s[i] /\ j < i)}) + 1]
    IN [r \in DOMAIN s |-> s[CHOOSE i \in DOMAIN s : rank[i] = r]]

\* numpy.percentile(s, 100 * q) of the sorted sequence: linear interpolation
\* between the two nearest order statistics.
Percentile(sorted, q) ==
    LET pos == FMul(q, <<Len(sorted) - 1, 1>>)
        lo == FFloor(pos)
    IN IF lo + 1 >= Len(sorted) THEN sorted[Len(sorted)]
       ELSE FAdd(sorted[lo + 1],
                 FMul(FSub(pos, <<lo, 1>>), FSub(sorted[lo + 2], sorted[lo + 1])))

\* The bootstrap with the two percentiles exchanged.
Bootstrap_swapped(samples, alpha, n_bootstrap_samples, seed) ==
    LET n == Len(samples)
        stream == RandomState(seed, n_bootstrap_samples * n)
        boot == [b \in 1..n_bootstrap_samples |->
                    FMean([j \in 1..n |-> samples[Choice(stream, (b - 1) * n + j, n)]])]
        sorted == SortFloats(boot)
        half == FMul(alpha, <<1, 2>>)
    IN [mean |-> FMean(boot),
        lower |-> Percentile(sorted, FSub(<<1, 1>>, half)),
        upper |-> Percentile(sorted, half)]

\* The nonparametric bootstrap: n_bootstrap_samples resamples with
\* replacement of the round rewards, each of size n_rounds; the mean of each
\* resample; then the mean and the alpha/2 and 1 - alpha/2 percentiles of
\* those means.
Bootstrap(samples, alpha, n_bootstrap_samples, seed) ==
    LET n == Len(samples)
        stream == RandomState(seed, n_bootstrap_samples * n)
        boot == [b \in 1..n_bootstrap_samples |->
                    FMean([j \in 1..n |-> samples[Choice(stream, (b - 1) * n + j, n)]])]
        sorted == SortFloats(boot)
        half == FMul(alpha, <<1, 2>>)
    IN [mean |-> FMean(boot),
        lower |-> Percentile(sorted, half),
        upper |-> Percentile(sorted, FSub(<<1, 1>>, half))]

\* random_state None seeds the stream from fresh entropy.
Estimator_estimate_interval(est, inputs, alpha, n_bootstrap_samples, random_state, entropy) ==
    LET rr == Estimator_estimate_round_rewards(est, inputs) IN
    IF rr.status = "raised" THEN rr
    ELSE Ok(Bootstrap(rr.value, alpha, n_bootstrap_samples,
                      IF random_state = None THEN entropy ELSE random_state[1]),
            <<>>, <<>>)

----------------------------------------------------------------------------
(* pandas.DataFrame, as far as the summaries use it: the row labels, the   *)
(* column labels and the cells, row by row.                                *)

\* pd.DataFrame(d, index=[label]) of a dict d of scalars: one column per
\* key, in the dict's order, and the one row `label`.
DataFrame_of_scalars(d, label) ==
    [index |-> <<label>>,
     columns |-> [k \in DOMAIN d |-> d[k][1]],
     values |-> <<[k \in DOMAIN d |-> d[k][2]]>>]

\* pd.DataFrame(d) of a dict d of {mean, lower, upper} dicts: one column per
\* key, one row per inner key.
DataFrame_of_dicts(d) ==
    LET inner == IF d = <<>> THEN <<>> ELSE <<"mean", "lower", "upper">> IN
    [index |-> inner,
     columns |-> [k \in DOMAIN d |-> d[k][1]],
     values |-> [r \in DOMAIN inner |-> [k \in DOMAIN d |-> d[k][2][inner[r]]]]]

\* DataFrame.T
Transpose(df) ==
    [index |-> df.columns,
     columns |-> df.index,
     values |-> [r \in DOMAIN df.columns |->
                    [c \in DOMAIN df.index |-> df.values[c][r]]]]

----------------------------------------------------------------------------
(* OffPolicyEvaluation.  `self` is the orchestrator's fields.              *)

\* d[key] = value on a dict kept as its <<key, value>> pairs in insertion
\* order: an existing key keeps its place and takes the new value.
DictSet(d, key, value) ==
    IF \E j \in DOMAIN d : d[j][1] = key
    THEN [j \in DOMAIN d |-> IF d[j][1] = key THEN <<key, value>> ELSE d[j]]
    ELSE Append(d, <<key, value>>)

\* The loop of __post_init__ over the first n estimators of the list; the
\* registry holds each estimator as its index in the list.
RECURSIVE RegisterEstimators(_, _)
RegisterEstimators(estimators, n) ==
    IF n = 0 THEN <<>>
    ELSE DictSet(RegisterEstimators(estimators, n - 1), estimators[n].estimator_name, n)

\* __post_init__ without the call of fit: an unfitted model stays unfitted.
post_init_never_fits(self) ==
    [self EXCEPT
        !.ope_estimators_ = RegisterEstimators(self.ope_estimators, Len(self.ope_estimators))]

\* __post_init__ without the check_is_fitted branch: the model is trained
\* whether or not it arrives fitted.
post_init_always_fits(self) ==
    [self EXCEPT
        !.regression_model =
            IF self.regression_model /= None
            THEN Some(RegressionModel_fit(self.regression_model[1], self.bandit_feedback))
            ELSE None,
        !.ope_estimators_ = RegisterEstimators(self.ope_estimators, Len(self.ope_estimators))]

\* __post_init__ registering a name only when the registry does not hold it
\* yet: of several estimators with one name the first is kept.
post_init_first_wins(self) ==
    LET estimators == self.ope_estimators
        firsts == SelectSeq([i \in DOMAIN estimators |-> i],
                            LAMBDA i : \A j \in 1..(i - 1) :
                                estimators[j].estimator_name /= estimators[i].estimator_name)
    IN [self EXCEPT
        !.regression_model =
            IF self.regression_model /= None
            THEN IF check_is_fitted(self.regression_model[1])
                 THEN self.regression_model
                 ELSE Some(RegressionModel_fit(self.regression_model[1], self.bandit_feedback))
            ELSE None,
        !.ope_estimators_ =
            [k \in DOMAIN firsts |-> <<estimators[firsts[k]].estimator_name, firsts[k]>>]]

__post_init__(self) ==
    [self EXCEPT
        !.regression_model =
            IF self.regression_model /= None
            THEN IF check_is_fitted(self.regression_model[1])
                 THEN self.regression_model
                 ELSE Some(RegressionModel_fit(self.regression_model[1], self.bandit_feedback))
            ELSE None,
        !.ope_estimators_ = RegisterEstimators(self.ope_estimators, Len(self.ope_estimators))]

\* _create_estimator_inputs with the logged position left out of the index:
\* the logged action is compared with the first slot of the ranking.
_create_estimator_inputs_first_slot(self, selected_actions) ==
    LET feedback == self.bandit_feedback
        n == feedback.n_rounds
        in_bounds == \A i \in 1..n :
                        /\ i <= Len(selected_actions)
                        /\ feedback.position[i] + 1 <= Len(selected_actions[i])
    IN IF ~in_bounds THEN Raised("IndexError", <<>>, <<>>)
       ELSE Ok([reward |-> feedback.reward, pscore |-> feedback.pscore,
                action_match |->
                    [i \in 1..n |-> feedback.action[i] = selected_actions[i][1]],
                estimated_rewards_by_reg_model |-> None],
               <<>>, <<>>)

\* _create_estimator_inputs without the `is not None` test: predict is
\* called on whatever self.regression_model is, and None has no predict.
_create_estimator_inputs_requires_model(self, selected_actions) ==
    LET feedback == self.bandit_feedback
        n == feedback.n_rounds
        in_bounds == \A i \in 1..n :
                        /\ i <= Len(selected_actions)
                        /\ feedback.position[i] + 1 <= Len(selected_actions[i])
    IN IF ~in_bounds THEN Raised("IndexError", <<>>, <<>>)
       ELSE
         LET picked == [i \in 1..n |-> selected_actions[i][feedback.position[i] + 1]]
             action_match == [i \in 1..n |-> feedback.action[i] = picked[i]]
         IN IF self.regression_model = None THEN Raised("AttributeError", <<>>, <<>>)
            ELSE LET predicted == RegressionModel_predict(self.regression_model[1],
                                                          feedback, selected_actions)
                 IN IF predicted.status = "raised"
                    THEN Raised(predicted.exc, <<Event("predict", 0, 0)>>, <<>>)
                    ELSE Ok([reward |-> feedback.reward, pscore |-> feedback.pscore,
                             action_match |-> action_match,
                             estimated_rewards_by_reg_model |-> Some(predicted.value)],
                            <<Event("predict", 0, 0)>>, <<>>)

\* selected_actions[np.arange(n_rounds), position] raises IndexError when a
\* row or a column index is outside the matrix.
_create_estimator_inputs(self, selected_actions) ==
    LET feedback == self.bandit_feedback
        n == feedback.n_rounds
        in_bounds == \A i \in 1..n :
                        /\ i <= Len(selected_actions)
                        /\ feedback.position[i] + 1 <= Len(selected_actions[i])
    IN IF ~in_bounds THEN Raised("IndexError", <<>>, <<>>)
       ELSE
         LET picked == [i \in 1..n |-> selected_actions[i][feedback.position[i] + 1]]
             action_match == [i \in 1..n |-> feedback.action[i] = picked[i]]
         IN IF self.regression_model /= None
            THEN LET predicted == RegressionModel_predict(self.regression_model[1],
                                                          feedback, selected_actions)
                 IN IF predicted.status = "raised"
                    THEN Raised(predicted.exc, <<Event("predict", 0, 0)>>, <<>>)
                    ELSE Ok([reward |-> feedback.reward, pscore |-> feedback.pscore,
                             action_match |-> action_match,
                             estimated_rewards_by_reg_model |-> Some(predicted.value)],
                            <<Event("predict", 0, 0)>>, <<>>)
            ELSE Ok([reward |-> feedback.reward, pscore |-> feedback.pscore,
                     action_match |-> action_match,
                     estimated_rewards_by_reg_model |-> None],
                    <<>>, <<>>)

\* What a public method has done once its call of _create_estimator_inputs
\* has returned or raised.
InputsBuilt(inputs) ==
    <<Event("_create_estimator_inputs", 0, 1)>> \o inputs.events

\* The loop `for estimator_name, estimator in self.ope_estimators_.items()`:
\* body[k] is what the loop body does for the k-th entry of the registry,
\* `what` the estimator method it calls.  The loop ends at the first entry
\* whose body raises, and the exception leaves the method.
FirstRaised(body) ==
    IF \E k \in DOMAIN body : body[k].status = "raised"
    THEN CHOOSE k \in DOMAIN body :
            /\ body[k].status = "raised"
            /\ \A j \in 1..(k - 1) : body[j].status = "ok"
    ELSE 0

DispatchLoop(self, inputs, body, what) ==
    LET registry == self.ope_estimators_
        f == FirstRaised(body)
        last == IF f = 0 THEN Len(registry) ELSE f
        events == InputsBuilt(inputs)
                  \o [k \in 1..last |-> Event(what, registry[k][2], 1)]
    IN IF f = 0
       THEN Ok([k \in DOMAIN registry |-> <<registry[k][1], body[k].value>>],
               events, <<inputs.value>>)
       ELSE Raised(body[f].exc, events, <<inputs.value>>)

\* estimate_policy_values with the call of _create_estimator_inputs moved
\* into the loop: every estimator is handed a payload built for it.
estimate_policy_values_rebuilds(self, selected_actions) ==
    LET inputs == _create_estimator_inputs(self, selected_actions)
        registry == self.ope_estimators_
    IN IF inputs.status = "raised" THEN Raised(inputs.exc, InputsBuilt(inputs), <<>>)
       ELSE
         LET once == DispatchLoop(self, inputs,
                        [k \in DOMAIN registry |->
                            Estimator_estimate_policy_value(
                                self.ope_estimators[registry[k][2]], inputs.value)],
                        "estimate_policy_value")
             built == InputsBuilt(inputs)
             block == Len(built) + 1
         IN IF once.status = "raised" THEN once
            ELSE [once EXCEPT
                    !.events =
                        [j \in 1..(Len(registry) * block) |->
                            LET k == ((j - 1) \div block) + 1
                                r == ((j - 1) % block) + 1
                            IN IF r = block
                               THEN Event("estimate_policy_value", registry[k][2], k)
                               ELSE IF built[r].payload = 0 THEN built[r]
                                    ELSE [built[r] EXCEPT !.payload = k]],
                    !.payloads = [k \in DOMAIN registry |-> inputs.value]]

\* estimate_policy_values with the loop body wrapped in try/except: an
\* estimator that raises is skipped, the loop goes on, and the mapping of
\* the estimators that succeeded is returned.
estimate_policy_values_swallows(self, selected_actions) ==
    LET inputs == _create_estimator_inputs(self, selected_actions)
        registry == self.ope_estimators_
    IN IF inputs.status = "raised" THEN Raised(inputs.exc, InputsBuilt(inputs), <<>>)
       ELSE
         LET body == [k \in DOMAIN registry |->
                         Estimator_estimate_policy_value(
                             self.ope_estimators[registry[k][2]], inputs.value)]
             kept == SelectSeq([k \in DOMAIN registry |-> k],
                               LAMBDA k : body[k].status = "ok")
         IN Ok([i \in DOMAIN kept |-> <<registry[kept[i]][1], body[kept[i]].value>>],
               InputsBuilt(inputs)
               \o [k \in DOMAIN registry |->
                       Event("estimate_policy_value", registry[k][2], 1)],
               <<inputs.value>>)

\* estimate_policy_values with an accumulator that is not reset between
\* estimators: each estimate is added to the estimate before it.
estimate_policy_values_accumulates(self, selected_actions) ==
    LET inputs == _create_estimator_inputs(self, selected_actions)
        registry == self.ope_estimators_
    IN IF inputs.status = "raised" THEN Raised(inputs.exc, InputsBuilt(inputs), <<>>)
       ELSE
         LET own == [k \in DOMAIN registry |->
                        Estimator_estimate_policy_value(
                            self.ope_estimators[registry[k][2]], inputs.value)]
         IN DispatchLoop(self, inputs,
                [k \in DOMAIN registry |->
                    IF own[k].status = "ok" /\ k > 1 /\ own[k - 1].status = "ok"
                    THEN Ok(FAdd(own[k].value, own[k - 1].value), <<>>, <<>>)
                    ELSE own[k]],
                "estimate_policy_value")

estimate_policy_values(self, selected_actions) ==
    LET inputs == _create_estimator_inputs(self, selected_actions)
        registry == self.ope_estimators_
    IN IF inputs.status = "raised" THEN Raised(inputs.exc, InputsBuilt(inputs), <<>>)
       ELSE DispatchLoop(self, inputs,
                [k \in DOMAIN registry |->
                    Estimator_estimate_policy_value(
                        self.ope_estimators[registry[k][2]], inputs.value)],
                "estimate_policy_value")

\* estimate_intervals without random_state in the call of
\* estimate_interval: every estimator falls back to its default, None.
estimate_intervals_unseeded(self, selected_actions, alpha, n_bootstrap_samples, random_state, entropy) ==
    LET inputs == _create_estimator_inputs(self, selected_actions)
        registry == self.ope_estimators_
    IN IF inputs.status = "raised" THEN Raised(inputs.exc, InputsBuilt(inputs), <<>>)
       ELSE DispatchLoop(self, inputs,
                [k \in DOMAIN registry |->
                    Estimator_estimate_interval(
                        self.ope_estimators[registry[k][2]], inputs.value,
                        alpha, n_bootstrap_samples, None, entropy[k])],
                "estimate_interval")

\* entropy[k]: the entropy the k-th estimator's generator takes when
\* random_state is None.
estimate_intervals(self, selected_actions, alpha, n_bootstrap_samples, random_state, entropy) ==
    LET inputs == _create_estimator_inputs(self, selected_actions)
        registry == self.ope_estimators_
    IN IF inputs.status = "raised" THEN Raised(inputs.exc, InputsBuilt(inputs), <<>>)
       ELSE DispatchLoop(self, inputs,
                [k \in DOMAIN registry |->
                    Estimator_estimate_interval(
                        self.ope_estimators[registry[k][2]], inputs.value,
                        alpha, n_bootstrap_samples, random_state, entropy[k])],
                "estimate_interval")

\* summarize_off_policy_estimates calling estimate_policy_values once more
\* before the intervals.
summarize_off_policy_estimates_recomputes(self, selected_actions, alpha, n_bootstrap_samples, random_state, entropy) ==
    LET values == estimate_policy_values(self, selected_actions) IN
    IF values.status = "raised" THEN values
    ELSE
      LET policy_value_df == DataFrame_of_scalars(values.value, "estimated_policy_value")
          intervals == estimate_intervals(self, selected_actions, alpha,
                                          n_bootstrap_samples, random_state, entropy)
          events == values.events
                    \o Renumber(values.events, Len(values.payloads))
                    \o Renumber(intervals.events, 2 * Len(values.payloads))
          payloads == values.payloads \o values.payloads \o intervals.payloads
      IN IF intervals.status = "raised" THEN Raised(intervals.exc, events, payloads)
         ELSE Ok(<<Transpose(policy_value_df),
                   Transpose(DataFrame_of_dicts(intervals.value))>>,
                 events, payloads)

\* summarize_off_policy_estimates returning the frames as built, without
\* .T: one column, not one row, per estimator.
summarize_off_policy_estimates_untransposed(self, selected_actions, alpha, n_bootstrap_samples, random_state, entropy) ==
    LET values == estimate_policy_values(self, selected_actions) IN
    IF values.status = "raised" THEN values
    ELSE
      LET policy_value_df == DataFrame_of_scalars(values.value, "estimated_policy_value")
          intervals == estimate_intervals(self, selected_actions, alpha,
                                          n_bootstrap_samples, random_state, entropy)
          events == values.events \o Renumber(intervals.events, Len(values.payloads))
          payloads == values.payloads \o intervals.payloads
      IN IF intervals.status = "raised" THEN Raised(intervals.exc, events, payloads)
         ELSE Ok(<<policy_value_df, DataFrame_of_dicts(intervals.value)>>,
                 events, payloads)

summarize_off_policy_estimates(self, selected_actions, alpha, n_bootstrap_samples, random_state, entropy) ==
    LET values == estimate_policy_values(self, selected_actions) IN
    IF values.status = "raised" THEN values
    ELSE
      LET policy_value_df == DataFrame_of_scalars(values.value, "estimated_policy_value")
          intervals == estimate_intervals(self, selected_actions, alpha,
                                          n_bootstrap_samples, random_state, entropy)
          events == values.events \o Renumber(intervals.events, Len(values.payloads))
          payloads == values.payloads \o intervals.payloads
      IN IF intervals.status = "raised" THEN Raised(intervals.exc, events, payloads)
         ELSE Ok(<<Transpose(policy_value_df),
                   Transpose(DataFrame_of_dicts(intervals.value))>>,
                 events, payloads)

\* The frame of round rewards goes to the plot; the method returns None.
visualize_off_policy_estimates(self, selected_actions) ==
    LET inputs == _create_estimator_inputs(self, selected_actions)
        registry == self.ope_estimators_
    IN IF inputs.status = "raised" THEN Raised(inputs.exc, InputsBuilt(inputs), <<>>)
       ELSE LET rounds == DispatchLoop(self, inputs,
                    [k \in DOMAIN registry |->
                        Estimator_estimate_round_rewards(
                            self.ope_estimators[registry[k][2]], inputs.value)],
                    "_estimate_round_rewards")
            IN IF rounds.status = "raised" THEN rounds
               ELSE Ok(None, rounds.events, rounds.payloads)

\* np.abs((estimated_policy_value - ground_truth) / ground_truth): dividing
\* a Python float by zero raises ZeroDivisionError; dividing a numpy float
\* by zero warns and gives inf, or nan for 0 / 0.
RelativeEstimationError(estimated_policy_value, ground_truth_policy_value, float_type) ==
    IF ground_truth_policy_value[1] = 0
    THEN IF float_type = "python" THEN Raised("ZeroDivisionError", <<>>, <<>>)
         ELSE IF FSub(estimated_policy_value, ground_truth_policy_value)[1] = 0
              THEN Ok(NaN, <<>>, <<>>)
              ELSE Ok(Inf, <<>>, <<>>)
    ELSE Ok(FAbs(FDiv(FSub(estimated_policy_value, ground_truth_policy_value),
                      ground_truth_policy_value)), <<>>, <<>>)

\* ground_truth_policy_value is a required parameter: a call that does not
\* pass it (None here) raises TypeError before the body runs.
evaluate_performance_of_estimators(self, selected_actions, ground_truth_policy_value) ==
    IF ground_truth_policy_value = None THEN Raised("TypeError", <<>>, <<>>)
    ELSE
      LET inputs == _create_estimator_inputs(self, selected_actions)
          registry == self.ope_estimators_
      IN IF inputs.status = "raised" THEN Raised(inputs.exc, InputsBuilt(inputs), <<>>)
         ELSE DispatchLoop(self, inputs,
                [k \in DOMAIN registry |->
                    LET estimator == self.ope_estimators[registry[k][2]]
                        estimated == Estimator_estimate_policy_value(estimator, inputs.value)
                    IN IF estimated.status = "raised" THEN estimated
                       ELSE RelativeEstimationError(estimated.value,
                                ground_truth_policy_value[1], estimator.float_type)],
                "estimate_policy_value")

\* The method calls evaluate_performance_of_estimators with selected_actions
\* alone.
summarize_estimators_comparison(self, selected_actions) ==
    LET errors == evaluate_performance_of_estimators(self, selected_actions, None) IN
    IF errors.status = "raised" THEN errors
    ELSE Ok(Transpose(DataFrame_of_scalars(errors.value, "relative_estimation_error")),
            errors.events, errors.payloads)

----------------------------------------------------------------------------
(* The state machine.  A caller builds orchestrators (the dataclass's      *)
(* fields are assigned, then __post_init__ runs) and calls their public    *)
(* methods, one call at a time.                                            *)

Self(o) ==
    [bandit_feedback |-> bandit_feedback[o],
     ope_estimators |-> ope_estimators[o],
     regression_model |-> regression_model[o],
     ope_estimators_ |-> ope_estimators_[o]]

\* How a call relates to the call before it: "repeat" is the same method
\* with the same arguments on the same orchestrator, "twin" the same method
\* with the same arguments on another orchestrator, "paired" one of
\* estimate_policy_values and summarize_off_policy_estimates after the other
\* on the same orchestrator with the same selected_actions.
Relation(o, op, args) ==
    IF last_call = None THEN "other"
    ELSE IF last_call[1].op = op
         THEN IF last_call[1].args /= args THEN "other"
              ELSE IF last_call[1].orch = o THEN "repeat" ELSE "twin"
         ELSE IF /\ {last_call[1].op, op} =
                       {"estimate_policy_values", "summarize_off_policy_estimates"}
                 /\ last_call[1].orch = o
                 /\ last_call[1].args.selected_actions = args.selected_actions
              THEN "paired"
              ELSE "other"

\* A public method returns or raises: the call is recorded.
Return(o, op, args, result) ==
    /\ last_call' = Some([orch |-> o, op |-> op, args |-> args, result |-> result])
    /\ previous' = Relation(o, op, args)
    /\ UNCHANGED <<bandit_feedback, ope_estimators, regression_model, ope_estimators_, pc>>

\* The matrices the callers of a universe U pass with a feedback: the
\* matrices U lists, and every matrix of the feedback's n_rounds rows plus
\* one of U's row offsets, with one of U's column counts.
SelectedActionsFor(feedback, U) ==
    U.matrices
    \cup UNION {[1..(feedback.n_rounds + d) -> [1..c -> 0..(feedback.n_actions - 1)]] :
                d \in {x \in U.row_offsets : feedback.n_rounds + x >= 1}, c \in U.cols}

\* The callers of a universe call again and again, or (a universe that
\* applies one method to every input) once.
MayCall(U) == U.repeat \/ last_call = None

PostInit(o) ==
    /\ pc[o] = "new"
    /\ LET after == __post_init__(Self(o)) IN
        /\ regression_model' = [regression_model EXCEPT ![o] = after.regression_model]
        /\ ope_estimators_' = [ope_estimators_ EXCEPT ![o] = after.ope_estimators_]
    /\ pc' = [pc EXCEPT ![o] = "ready"]
    /\ UNCHANGED <<bandit_feedback, ope_estimators, last_call, previous>>

\* _create_estimator_inputs filling the feedback dictionary itself instead
\* of a new dictionary: the call leaves action_match behind in
\* self.bandit_feedback.
CreateEstimatorInputs_aliases_feedback(o, U) ==
    /\ pc[o] = "ready"
    /\ MayCall(U)
    /\ \E sa \in SelectedActionsFor(bandit_feedback[o], U) :
          LET inputs == _create_estimator_inputs(Self(o), sa)
              args == [selected_actions |-> sa]
              feedback == bandit_feedback[o]
          IN /\ last_call' = Some([orch |-> o, op |-> "_create_estimator_inputs",
                                   args |-> args,
                                   result |-> IF inputs.status = "raised" THEN inputs
                                              ELSE Ok(inputs.value, inputs.events,
                                                      <<inputs.value>>)])
             /\ previous' = Relation(o, "_create_estimator_inputs", args)
             /\ bandit_feedback' =
                   IF inputs.status = "raised" THEN bandit_feedback
                   ELSE [bandit_feedback EXCEPT ![o] =
                            [k \in DOMAIN feedback \cup {"action_match"} |->
                                IF k = "action_match" THEN inputs.value.action_match
                                ELSE feedback[k]]]
             /\ UNCHANGED <<ope_estimators, regression_model, ope_estimators_, pc>>

\* The private method, called on its own.
CreateEstimatorInputs(o, U) ==
    /\ pc[o] = "ready"
    /\ MayCall(U)
    /\ \E sa \in SelectedActionsFor(bandit_feedback[o], U) :
          LET inputs == _create_estimator_inputs(Self(o), sa) IN
          Return(o, "_create_estimator_inputs", [selected_actions |-> sa],
                 IF inputs.status = "raised" THEN inputs
                 ELSE Ok(inputs.value, inputs.events, <<inputs.value>>))

EstimatePolicyValues(o, U) ==
    /\ pc[o] = "ready"
    /\ MayCall(U)
    /\ \E sa \in SelectedActionsFor(bandit_feedback[o], U) :
          Return(o, "estimate_policy_values", [selected_actions |-> sa],
                 estimate_policy_values(Self(o), sa))

EstimateIntervals(o, U) ==
    /\ pc[o] = "ready"
    /\ MayCall(U)
    /\ \E sa \in SelectedActionsFor(bandit_feedback[o], U),
          alpha \in U.alphas, n \in U.bootstrap_sizes, seed \in U.random_states :
          \E entropy \in [DOMAIN ope_estimators_[o] -> U.entropies] :
             Return(o, "estimate_intervals",
                    [selected_actions |-> sa, alpha |-> alpha,
                     n_bootstrap_samples |-> n, random_state |-> seed],
                    estimate_intervals(Self(o), sa, alpha, n, seed, entropy))

SummarizeOffPolicyEstimates(o, U) ==
    /\ pc[o] = "ready"
    /\ MayCall(U)
    /\ \E sa \in SelectedActionsFor(bandit_feedback[o], U),
          alpha \in U.alphas, n \in U.bootstrap_sizes, seed \in U.random_states :
          \E entropy \in [DOMAIN ope_estimators_[o] -> U.entropies] :
             Return(o, "summarize_off_policy_estimates",
                    [selected_actions |-> sa, alpha |-> alpha,
                     n_bootstrap_samples |-> n, random_state |-> seed],
                    summarize_off_policy_estimates(Self(o), sa, alpha, n, seed, entropy))

VisualizeOffPolicyEstimates(o, U) ==
    /\ pc[o] = "ready"
    /\ MayCall(U)
    /\ \E sa \in SelectedActionsFor(bandit_feedback[o], U) :
          Return(o, "visualize_off_policy_estimates", [selected_actions |-> sa],
                 visualize_off_policy_estimates(Self(o), sa))

EvaluatePerformanceOfEstimators(o, U) ==
    /\ pc[o] = "ready"
    /\ MayCall(U)
    /\ \E sa \in SelectedActionsFor(bandit_feedback[o], U),
          truth \in U.ground_truths :
          Return(o, "evaluate_performance_of_estimators",
                 [selected_actions |-> sa, ground_truth_policy_value |-> truth],
                 evaluate_performance_of_estimators(Self(o), sa, Some(truth)))

SummarizeEstimatorsComparison(o, U) ==
    /\ pc[o] = "ready"
    /\ MayCall(U)
    /\ \E sa \in SelectedActionsFor(bandit_feedback[o], U) :
          Return(o, "summarize_estimators_comparison", [selected_actions |-> sa],
                 summarize_estimators_comparison(Self(o), sa))

\* The scenario of the documentation: three rounds, three actions, lists
\* of two, a uniform behavior policy; any rewards.
ScenarioFeedbacks ==
    {[n_rounds |-> 3, n_actions |-> 3, action |-> <<1, 0, 2>>,
      position |-> <<0, 0, 0>>, reward |-> r,
      pscore |-> <<<<1, 2>>, <<1, 2>>, <<1, 2>>>>] : r \in [1..3 -> Rewards]}

\* Its evaluation policy's rankings, and those of a policy that shows the
\* same ranking in every round.
ScenarioMatrices ==
    {<<<<1, 2>>, <<0, 1>>, <<2, 0>>>>, <<<<0, 1>>, <<0, 1>>, <<0, 1>>>>}

GroundTruths == {<<0, 1>>, <<1, 2>>}

\* The callers of Spec: the scenario's matrices, default alpha, a seed.
Universe ==
    [repeat |-> TRUE, matrices |-> ScenarioMatrices, row_offsets |-> {}, cols |-> {},
     alphas |-> {<<1, 20>>}, bootstrap_sizes |-> {MaxBootstrap},
     random_states |-> {Some(0)}, entropies |-> {0},
     ground_truths |-> GroundTruths]

InitWith(orchestrators, feedbacks, lists, models) ==
    /\ bandit_feedback \in [orchestrators -> feedbacks]
    /\ ope_estimators \in [orchestrators -> lists]
    /\ regression_model \in [orchestrators -> models]
    /\ ope_estimators_ = [o \in orchestrators |-> <<>>]
    /\ pc = [o \in orchestrators |-> "new"]
    /\ last_call = None
    /\ previous = "other"

Next ==
    \E o \in DOMAIN pc :
        \/ PostInit(o)
        \/ EstimatePolicyValues(o, Universe)
        \/ EstimateIntervals(o, Universe)
        \/ SummarizeOffPolicyEstimates(o, Universe)
        \/ VisualizeOffPolicyEstimates(o, Universe)
        \/ EvaluatePerformanceOfEstimators(o, Universe)
        \/ SummarizeEstimatorsComparison(o, Universe)

Init ==
    InitWith({1}, ScenarioFeedbacks, EstimatorLists,
             {None, Some(Unfitted), Some(Fitted(<<1, 0, 1>>))})

Spec == Init /\ [][Next]_vars

----------------------------------------------------------------------------
(* Input construction on its own: every feedback of up to MaxRounds rounds *)
(* over lists of two, with every matrix of one row fewer to one row more   *)
(* and of one or two columns; one call per orchestrator.                   *)

InputsUniverse ==
    [repeat |-> FALSE, matrices |-> {}, row_offsets |-> {-1, 0, 1}, cols |-> {1, 2},
     alphas |-> {}, bootstrap_sizes |-> {}, random_states |-> {}, entropies |-> {},
     ground_truths |-> {}]

InitInputs ==
    InitWith({1}, BanditFeedbacks({0, 1}, {1}, {<<1, 2>>}), {<<IPW>>},
             {None, Some(Fitted(<<1, 0>>))})

NextInputs ==
    \E o \in DOMAIN pc :
        \/ PostInit(o)
        \/ CreateEstimatorInputs(o, InputsUniverse)

SpecInputs == InitInputs /\ [][NextInputs]_vars

----------------------------------------------------------------------------
(* The evaluation operations on matrices of every shape around the         *)
(* feedback's: one row fewer to one row more, one or two columns; one call *)
(* per orchestrator.                                                       *)

ShapesUniverse ==
    [repeat |-> FALSE, matrices |-> {}, row_offsets |-> {-1, 0, 1}, cols |-> {1, 2},
     alphas |-> {<<1, 20>>}, bootstrap_sizes |-> {MaxBootstrap},
     random_states |-> {Some(0)}, entropies |-> {0},
     ground_truths |-> {<<1, 2>>}]

InitShapes ==
    InitWith({1}, BanditFeedbacks({0, 1}, {1}, {<<1, 2>>}), {<<IPW>>},
             {None, Some(Fitted(<<1, 0>>))})

NextShapes ==
    \E o \in DOMAIN pc :
        \/ PostInit(o)
        \/ EstimatePolicyValues(o, ShapesUniverse)
        \/ EstimateIntervals(o, ShapesUniverse)
        \/ SummarizeOffPolicyEstimates(o, ShapesUniverse)
        \/ VisualizeOffPolicyEstimates(o, ShapesUniverse)
        \/ EvaluatePerformanceOfEstimators(o, ShapesUniverse)

SpecShapes == InitShapes /\ [][NextShapes]_vars

----------------------------------------------------------------------------
(* Input construction and the evaluation operations called again and       *)
(* again on one orchestrator of the scenario, with either matrix.          *)

InitFrame ==
    InitWith({1}, ScenarioFeedbacks, {<<IPW>>, <<DM, IPW>>}, {None, Some(Unfitted)})

NextFrame ==
    \E o \in DOMAIN pc :
        \/ PostInit(o)
        \/ CreateEstimatorInputs(o, Universe)
        \/ EstimatePolicyValues(o, Universe)
        \/ EstimateIntervals(o, Universe)
        \/ SummarizeOffPolicyEstimates(o, Universe)
        \/ VisualizeOffPolicyEstimates(o, Universe)
        \/ EvaluatePerformanceOfEstimators(o, Universe)

SpecFrame == InitFrame /\ [][NextFrame]_vars

----------------------------------------------------------------------------
(* Two orchestrators over the same feedback and regression model, whose    *)
(* estimator lists hold the same estimators, of pairwise distinct names,   *)
(* in any two orders.                                                      *)

DistinctNameLists ==
    {l \in UNION {[1..n -> {IPW, DM, Unweighted}] : n \in 0..MaxEstimators} :
        \A i, j \in DOMAIN l : l[i].estimator_name = l[j].estimator_name => i = j}

InitPermuted ==
    /\ InitWith({1, 2}, ScenarioFeedbacks, DistinctNameLists, {None, Some(Unfitted)})
    /\ bandit_feedback[1] = bandit_feedback[2]
    /\ regression_model[1] = regression_model[2]
    /\ Len(ope_estimators[1]) = Len(ope_estimators[2])
    /\ Range(ope_estimators[1]) = Range(ope_estimators[2])

NextPermuted ==
    \E o \in DOMAIN pc :
        \/ PostInit(o)
        \/ EstimatePolicyValues(o, Universe)

SpecPermuted == InitPermuted /\ [][NextPermuted]_vars

----------------------------------------------------------------------------
(* The bootstrap on its own: single-slot feedbacks with every reward      *)
(* under a uniform behavior policy, every alpha, resample count and seed;  *)
(* one call per orchestrator.                                              *)

Alphas == {<<1, 20>>, <<1, 2>>, <<9, 10>>}
BootstrapSizes == 1..MaxBootstrap
RandomStates == {None} \cup {Some(x) : x \in 0..MaxSeed}

BootstrapUniverse ==
    [repeat |-> FALSE, matrices |-> {}, row_offsets |-> {0}, cols |-> {1},
     alphas |-> Alphas, bootstrap_sizes |-> BootstrapSizes,
     random_states |-> RandomStates, entropies |-> 0..MaxSeed,
     ground_truths |-> {}]

InitBootstrap ==
    InitWith({1}, BanditFeedbacks({0}, Rewards, {<<1, 2>>}),
             {<<IPW>>, <<Custom, DM>>}, {Some(Unfitted)})

NextBootstrap ==
    \E o \in DOMAIN pc :
        \/ PostInit(o)
        \/ EstimateIntervals(o, BootstrapUniverse)

SpecBootstrap == InitBootstrap /\ [][NextBootstrap]_vars

----------------------------------------------------------------------------
(* Interval estimation called again and again on the scenario, with and    *)
(* without a seed.                                                         *)

IntervalsUniverse ==
    [repeat |-> TRUE, matrices |-> ScenarioMatrices, row_offsets |-> {}, cols |-> {},
     alphas |-> {<<1, 20>>}, bootstrap_sizes |-> {MaxBootstrap - 1, MaxBootstrap},
     random_states |-> RandomStates, entropies |-> 0..MaxSeed,
     ground_truths |-> {}]

InitIntervals ==
    InitWith({1}, ScenarioFeedbacks, {<<IPW>>, <<Custom, DM>>, <<DM>>},
             {None, Some(Unfitted)})

NextIntervals ==
    \E o \in DOMAIN pc :
        \/ PostInit(o)
        \/ EstimateIntervals(o, IntervalsUniverse)

SpecIntervals == InitIntervals /\ [][NextIntervals]_vars

----------------------------------------------------------------------------
(* Two orchestrators over the same feedback and estimators, the first      *)
(* built with a fitted regression model, the second with an unfitted one.  *)

InitPair ==
    /\ InitWith({1, 2}, ScenarioFeedbacks, EstimatorLists,
                {Some(Unfitted)} \cup {Some(Fitted(p)) : p \in [1..3 -> Rewards]})
    /\ bandit_feedback[1] = bandit_feedback[2]
    /\ ope_estimators[1] = ope_estimators[2]
    /\ regression_model[1][1].fitted
    /\ ~regression_model[2][1].fitted

NextPair ==
    \E o \in DOMAIN pc :
        \/ PostInit(o)
        \/ EstimatePolicyValues(o, Universe)

SpecPair == InitPair /\ [][NextPair]_vars

----------------------------------------------------------------------------
(* The claims.                                                             *)

IsCall(op) == last_call /= None /\ last_call[1].op = op
Returned == last_call /= None /\ last_call[1].result.status = "ok"
Count(events, what) == Cardinality({j \in DOMAIN events : events[j].ev = what})

\* C1: in every payload _create_estimator_inputs builds, action_match has
\* one entry per round, and the entry of round i is true exactly when the
\* logged action of round i is the action selected_actions holds in row i
\* at the logged position of round i.
C1_ActionMatch ==
    (IsCall("_create_estimator_inputs") /\ Returned) =>
        LET feedback == bandit_feedback[last_call[1].orch]
            selected_actions == last_call[1].args.selected_actions
            action_match == last_call[1].result.value.action_match
        IN /\ DOMAIN action_match = 1..feedback.n_rounds
           /\ \A i \in 1..feedback.n_rounds :
                 action_match[i] <=>
                    (feedback.action[i] =
                        selected_actions[i][feedback.position[i] + 1])

\* C1 happens: a payload is built from a log with a round at slot 1 and a
\* round at slot 0, and holds a match and a mismatch.
C1_Witness ==
    /\ IsCall("_create_estimator_inputs")
    /\ Returned
    /\ bandit_feedback[last_call[1].orch].position = <<1, 0>>
    /\ last_call[1].result.value.action_match = <<TRUE, FALSE>>
    /\ last_call[1].args.selected_actions = <<<<0, 1>>, <<1, 0>>>>

\* C2: the regression model's fit runs only in a step that is the
\* construction of its orchestrator, only on a model that arrived unfitted,
\* and once; a model that arrived fitted leaves construction as it came; no
\* public call records a fit or changes the model.
C2_FitOnlyAtConstruction ==
    [][\A o \in DOMAIN pc :
          regression_model[o] /= None =>
            /\ regression_model'[o] /= None
            /\ (regression_model'[o][1].n_fit /= regression_model[o][1].n_fit =>
                    /\ pc[o] = "new" /\ pc'[o] = "ready"
                    /\ ~regression_model[o][1].fitted
                    /\ regression_model[o][1].n_fit = 0
                    /\ regression_model'[o][1].n_fit = 1)
            /\ (regression_model[o][1].fitted =>
                    regression_model'[o] = regression_model[o])
            /\ (last_call' /= last_call =>
                    /\ regression_model' = regression_model
                    /\ Count(last_call'[1].result.events, "fit") = 0)]_vars

\* C2 happens: a model that arrived unfitted has been fitted once, and the
\* orchestrator has since served the same call twice.
C2_Witness ==
    /\ pc[1] = "ready"
    /\ regression_model[1] /= None
    /\ regression_model[1][1].n_fit = 1
    /\ IsCall("estimate_policy_values")
    /\ previous = "repeat"

\* The public evaluation operations.
EvaluationOps ==
    {"estimate_policy_values", "estimate_intervals", "summarize_off_policy_estimates",
     "visualize_off_policy_estimates", "evaluate_performance_of_estimators"}

\* The events of a call that are calls on estimators.
EstimatorEvents(events) == {j \in DOMAIN events : events[j].est /= 0}

\* C3 as claimed: every public evaluation operation invokes
\* _create_estimator_inputs exactly once per call, and every estimator
\* dispatched in the call receives that one payload.
C3_OncePerCall ==
    (last_call /= None /\ last_call[1].op \in EvaluationOps) =>
        LET events == last_call[1].result.events IN
        /\ Count(events, "_create_estimator_inputs") = 1
        /\ \A j \in EstimatorEvents(events) : events[j].payload = 1

\* C3 as amended: estimate_policy_values, estimate_intervals,
\* visualize_off_policy_estimates and evaluate_performance_of_estimators
\* invoke _create_estimator_inputs exactly once per call and hand that one
\* payload to every estimator they dispatch.  summarize_off_policy_estimates
\* builds a payload in each of its two nested calls: a call that returns
\* has invoked _create_estimator_inputs twice, its point estimates receive
\* the first payload and its interval estimates the second, and the two
\* payloads have equal contents.  In every call predict runs once per
\* payload when a regression model is configured, and never otherwise.
C3_OncePerDispatchLoop ==
    (last_call /= None /\ last_call[1].op \in EvaluationOps) =>
        LET events == last_call[1].result.events
            payloads == last_call[1].result.payloads
            creates == Count(events, "_create_estimator_inputs")
        IN /\ Count(events, "predict") =
                 IF regression_model[last_call[1].orch] /= None THEN creates ELSE 0
           /\ Len(payloads) = creates
           /\ IF last_call[1].op = "summarize_off_policy_estimates"
              THEN /\ creates \in {1, 2}
                   /\ Returned => creates = 2
                   /\ \A j \in EstimatorEvents(events) :
                         events[j].payload =
                            IF events[j].ev = "estimate_policy_value" THEN 1 ELSE 2
                   /\ creates = 2 => payloads[1] = payloads[2]
              ELSE /\ creates = 1
                   /\ \A j \in EstimatorEvents(events) : events[j].payload = 1

\* C3 happens: a summary over two estimators and a regression model
\* returns, having built two payloads; and a point estimation over two
\* estimators returns.
C3_Witness ==
    /\ IsCall("summarize_off_policy_estimates")
    /\ Returned
    /\ Len(ope_estimators_[1]) = 2
    /\ regression_model[1] /= None
    /\ Len(last_call[1].result.payloads) = 2
    /\ Cardinality(EstimatorEvents(last_call[1].result.events)) = 4

\* The names of a dict or of a registry, in its order.
Keys(d) == [k \in DOMAIN d |-> d[k][1]]

\* The place in the supplied list where a name is first registered.
FirstRegistered(o, name) ==
    CHOOSE i \in DOMAIN ope_estimators[o] :
        /\ ope_estimators[o][i].estimator_name = name
        /\ \A j \in 1..(i - 1) : ope_estimators[o][j].estimator_name /= name

\* The point-estimate table of a summary holds the map of an
\* estimate_policy_values call, row by row, in the order in which the names
\* were registered on orchestrator o.
SameEstimates(o, map, table) ==
    /\ table.index = Keys(map)
    /\ table.columns = <<"estimated_policy_value">>
    /\ table.values = [k \in DOMAIN map |-> <<map[k][2]>>]
    /\ Cardinality(Range(table.index)) = Len(table.index)
    /\ Range(table.index) =
          {ope_estimators[o][i].estimator_name : i \in DOMAIN ope_estimators[o]}
    /\ \A j, k \in DOMAIN table.index :
          j < k => FirstRegistered(o, table.index[j]) < FirstRegistered(o, table.index[k])

\* C4: when estimate_policy_values and summarize_off_policy_estimates
\* return, one after the other, on the same orchestrator for the same
\* selected_actions, the point-estimate table has exactly the names of the
\* map, each once, with the map's values, its rows in registration order.
C4_TableIsTheMap ==
    [][(/\ last_call /= None /\ last_call' /= None
        /\ last_call[1].orch = last_call'[1].orch
        /\ last_call[1].result.status = "ok" /\ last_call'[1].result.status = "ok"
        /\ {last_call[1].op, last_call'[1].op} =
              {"estimate_policy_values", "summarize_off_policy_estimates"}
        /\ last_call[1].args.selected_actions = last_call'[1].args.selected_actions)
       => IF last_call[1].op = "estimate_policy_values"
          THEN SameEstimates(last_call[1].orch,
                             last_call[1].result.value, last_call'[1].result.value[1])
          ELSE SameEstimates(last_call[1].orch,
                             last_call'[1].result.value, last_call[1].result.value[1])]_vars

\* C4 happens: a summary returns right after estimate_policy_values
\* returned for the same selected_actions, over two estimators whose
\* estimates differ.
C4_Witness ==
    /\ IsCall("summarize_off_policy_estimates")
    /\ Returned
    /\ previous = "paired"
    /\ Len(last_call[1].result.value[1].index) = 2
    /\ last_call[1].result.value[1].values[1] /= last_call[1].result.value[1].values[2]

\* C5 as claimed, for the registries that hold an estimator:
\* evaluate_performance_of_estimators called with a ground truth of zero
\* raises, and returns no mapping of relative errors.
C5_ZeroGroundTruthRaises ==
    (/\ IsCall("evaluate_performance_of_estimators")
     /\ last_call[1].args.ground_truth_policy_value = <<0, 1>>
     /\ ope_estimators_[last_call[1].orch] /= <<>>)
    => last_call[1].result.status = "raised"

\* C6 as claimed: summarize_estimators_comparison returns a table of one
\* row per registered estimator, holding the relative estimation errors
\* evaluate_performance_of_estimators computes (for some ground truth).
C6_OneRowPerEstimator ==
    IsCall("summarize_estimators_comparison") =>
        /\ Returned
        /\ last_call[1].result.value.index = Keys(ope_estimators_[last_call[1].orch])
        /\ \E truth \in GroundTruths :
              LET errors == evaluate_performance_of_estimators(
                                Self(last_call[1].orch),
                                last_call[1].args.selected_actions, Some(truth))
              IN /\ errors.status = "ok"
                 /\ last_call[1].result.value.values =
                        [k \in DOMAIN errors.value |-> <<errors.value[k][2]>>]

\* The number of calls of an estimator method on the estimator at place i
\* of the supplied list.
Invocations(events, what, i) ==
    Cardinality({j \in DOMAIN events : events[j].ev = what /\ events[j].est = i})

\* C7: a call of summarize_off_policy_estimates calls no estimator method
\* twice; a call that returns has called estimate_policy_value once and
\* estimate_interval once on every registered estimator and nothing else on
\* any estimator, and its two tables are the transposed frames of what
\* estimate_policy_values and estimate_intervals return for its arguments.
C7_SummaryInvokesOnce ==
    IsCall("summarize_off_policy_estimates") =>
        LET o == last_call[1].orch
            args == last_call[1].args
            events == last_call[1].result.events
            registry == ope_estimators_[o]
        IN /\ \A i \in DOMAIN ope_estimators[o] :
                 /\ Invocations(events, "estimate_policy_value", i) <= 1
                 /\ Invocations(events, "estimate_interval", i) <= 1
           /\ Returned =>
                 /\ \A k \in DOMAIN registry :
                       /\ Invocations(events, "estimate_policy_value", registry[k][2]) = 1
                       /\ Invocations(events, "estimate_interval", registry[k][2]) = 1
                 /\ Cardinality(EstimatorEvents(events)) = 2 * Len(registry)
                 /\ args.random_state /= None =>
                       /\ last_call[1].result.value[1] =
                            Transpose(DataFrame_of_scalars(
                                estimate_policy_values(Self(o), args.selected_actions).value,
                                "estimated_policy_value"))
                       /\ last_call[1].result.value[2] =
                            Transpose(DataFrame_of_dicts(
                                estimate_intervals(Self(o), args.selected_actions,
                                    args.alpha, args.n_bootstrap_samples,
                                    args.random_state, [k \in DOMAIN registry |-> 0]).value))

\* C7 happens: a summary over two registered estimators returns.
C7_Witness ==
    /\ IsCall("summarize_off_policy_estimates")
    /\ Returned
    /\ Len(ope_estimators_[1]) = 2
    /\ Invocations(last_call[1].result.events, "estimate_interval", 2) = 1
    /\ Invocations(last_call[1].result.events, "estimate_policy_value", 1) = 1

\* C8: two estimate_intervals calls in a row on one orchestrator with the
\* same selected_actions, alpha, n_bootstrap_samples and the same seed
\* return the same mapping, having handed the estimators the same payload.
C8_SameSeedSameIntervals ==
    [][(/\ last_call /= None /\ last_call' /= None
        /\ last_call[1].op = "estimate_intervals"
        /\ last_call'[1].op = "estimate_intervals"
        /\ last_call'[1].orch = last_call[1].orch
        /\ last_call'[1].args = last_call[1].args
        /\ last_call[1].args.random_state /= None)
       => last_call'[1].result = last_call[1].result]_vars

\* C8 happens: a seeded estimate_intervals call over two estimators returns
\* for the second time in a row, with an interval that is not a point.
C8_Witness ==
    /\ IsCall("estimate_intervals")
    /\ Returned
    /\ previous = "repeat"
    /\ last_call[1].args.random_state /= None
    /\ Len(last_call[1].result.value) = 2
    /\ \E k \in DOMAIN last_call[1].result.value :
          last_call[1].result.value[k][2].lower /= last_call[1].result.value[k][2].upper

\* C9 as claimed: every interval estimate_intervals reports has
\* lower <= mean <= upper.
C9_MeanWithinInterval ==
    (IsCall("estimate_intervals") /\ Returned) =>
        \A k \in DOMAIN last_call[1].result.value :
            LET interval == last_call[1].result.value[k][2] IN
            FLeq(interval.lower, interval.mean) /\ FLeq(interval.mean, interval.upper)

\* C9 as amended: every interval estimate_intervals reports has
\* lower <= upper, and lower, mean and upper all lie between the smallest
\* and the largest round reward of the estimator.
C9_LowerBelowUpper ==
    (IsCall("estimate_intervals") /\ Returned) =>
        LET o == last_call[1].orch
            registry == ope_estimators_[o]
        IN \A k \in DOMAIN registry :
            LET interval == last_call[1].result.value[k][2]
                rewards == Estimator_estimate_round_rewards(
                               ope_estimators[o][registry[k][2]],
                               last_call[1].result.payloads[1]).value
                Within(x) == /\ \E i \in DOMAIN rewards : FLeq(rewards[i], x)
                             /\ \E i \in DOMAIN rewards : FLeq(x, rewards[i])
            IN /\ FLeq(interval.lower, interval.upper)
               /\ Within(interval.lower) /\ Within(interval.mean) /\ Within(interval.upper)

\* C9 happens: an interval is reported whose lower end is below its upper
\* end, for an alpha above one half.
C9_Witness ==
    /\ IsCall("estimate_intervals")
    /\ Returned
    /\ FLess(<<1, 2>>, last_call[1].args.alpha)
    /\ \E k \in DOMAIN last_call[1].result.value :
          FLess(last_call[1].result.value[k][2].lower,
                last_call[1].result.value[k][2].upper)

\* In a pair, what fit makes of the second orchestrator's unfitted model
\* predicts as the first orchestrator's fitted model does.
ExtensionallyEqual ==
    RegressionModel_fit(Unfitted, bandit_feedback[2]).params
        = regression_model[1][1].params

\* C10: in a pair of orchestrators with the same feedback and estimators,
\* one built with a fitted model and one with an unfitted model that fit
\* makes extensionally equal to it, estimate_policy_values called on one
\* and then on the other with the same selected_actions ends the same way
\* with the same mapping.
C10_LazyFitSameEstimates ==
    [][(/\ last_call /= None /\ last_call' /= None
        /\ last_call[1].op = "estimate_policy_values"
        /\ last_call'[1].op = "estimate_policy_values"
        /\ last_call'[1].orch /= last_call[1].orch
        /\ last_call'[1].args = last_call[1].args
        /\ ExtensionallyEqual)
       => /\ last_call'[1].result.status = last_call[1].result.status
          /\ last_call'[1].result.exc = last_call[1].result.exc
          /\ last_call'[1].result.value = last_call[1].result.value]_vars

\* C10 happens: the orchestrator built with the unfitted model returns its
\* estimates right after its twin did for the same selected_actions, the
\* two models being extensionally equal, and the estimates include one of
\* the model's predictions that is not zero.
C10_Witness ==
    /\ DOMAIN pc = {1, 2}
    /\ IsCall("estimate_policy_values")
    /\ Returned
    /\ last_call[1].orch = 2
    /\ previous = "twin"
    /\ ExtensionallyEqual
    /\ regression_model[2][1].n_fit = 1
    /\ \E k \in DOMAIN last_call[1].result.value :
          /\ last_call[1].result.value[k][1] = "dm"
          /\ last_call[1].result.value[k][2] /= <<0, 1>>

\* The estimator method an event names fails on the payload it was handed.
EstimatorFails(call, j) ==
    LET e == call.result.events[j] IN
    Estimator_estimate_round_rewards(ope_estimators[call.orch][e.est],
                                     call.result.payloads[e.payload]).status = "raised"

\* C11: in every evaluation call, when an estimator's method fails the call
\* raises that failure (the TypeError of the missing argument), returns no
\* mapping, and the failing invocation is the last thing the call did: no
\* estimator registered after it is invoked.  The estimators invoked in a
\* dispatch loop are those of the registry, in its order, up to the first
\* that fails.
C11_FailurePropagates ==
    (last_call /= None /\ last_call[1].op \in EvaluationOps) =>
        LET call == last_call[1]
            events == call.result.events
            registry == ope_estimators_[call.orch]
            invoked == SelectSeq(events, LAMBDA e : e.est /= 0 /\ e.payload = 1)
        IN /\ \A j \in EstimatorEvents(events) :
                 EstimatorFails(call, j) =>
                    /\ call.result.status = "raised"
                    /\ call.result.exc = "TypeError"
                    /\ call.result.value = None
                    /\ j = Len(events)
           /\ Len(invoked) <= Len(registry)
           /\ \A k \in DOMAIN invoked : invoked[k].est = registry[k][2]
           /\ call.result.status = "ok" =>
                 /\ Len(invoked) = Len(registry)
                 /\ \A j \in EstimatorEvents(events) : ~EstimatorFails(call, j)

\* C11 happens: point estimation over a registry of two, without a
\* regression model, raises at the first entry, the direct method, and the
\* second entry is never invoked.
C11_Witness ==
    /\ IsCall("estimate_policy_values")
    /\ ope_estimators[1] = <<DM, IPW>>
    /\ regression_model[1] = None
    /\ last_call[1].result.status = "raised"
    /\ last_call[1].result.exc = "TypeError"
    /\ Count(last_call[1].result.events, "estimate_policy_value") = 1

\* C12: once an orchestrator is constructed, its registry holds the names
\* of the supplied estimators, each once, and the entry of a name is the
\* last estimator of the list that declares it; every estimator an
\* evaluation call invokes is an entry of the registry, so an earlier
\* estimator of the same name is never invoked.
C12_LastRegisteredWins ==
    \A o \in DOMAIN pc :
        pc[o] = "ready" =>
            LET estimators == ope_estimators[o]
                registry == ope_estimators_[o]
            IN /\ {registry[k][1] : k \in DOMAIN registry} =
                     {estimators[i].estimator_name : i \in DOMAIN estimators}
               /\ \A k, l \in DOMAIN registry : registry[k][1] = registry[l][1] => k = l
               /\ \A k \in DOMAIN registry :
                     /\ registry[k][2] \in DOMAIN estimators
                     /\ estimators[registry[k][2]].estimator_name = registry[k][1]
                     /\ \A i \in DOMAIN estimators :
                           estimators[i].estimator_name = registry[k][1] => i <= registry[k][2]
               /\ (last_call /= None /\ last_call[1].orch = o
                       /\ last_call[1].op \in EvaluationOps) =>
                     \A j \in EstimatorEvents(last_call[1].result.events) :
                        \E k \in DOMAIN registry :
                            registry[k][2] = last_call[1].result.events[j].est

\* C12 happens: two estimators declare the name "ipw"; the registry holds
\* the second, and a point estimation returns having invoked it alone.
C12_Witness ==
    /\ ope_estimators[1] = <<IPW, Custom>>
    /\ ope_estimators_[1] = <<<<"ipw", 2>>>>
    /\ IsCall("estimate_policy_values")
    /\ Returned
    /\ \A j \in EstimatorEvents(last_call[1].result.events) :
          last_call[1].result.events[j].est = 2
    /\ Count(last_call[1].result.events, "estimate_policy_value") = 1

\* The matrix of a call has as many rows as the feedback has rounds, and
\* its columns cover every logged position.
ShapeAgrees(call) ==
    LET feedback == bandit_feedback[call.orch]
        selected_actions == call.args.selected_actions
    IN /\ Len(selected_actions) = feedback.n_rounds
       /\ \A i \in 1..feedback.n_rounds :
             feedback.position[i] + 1 <= Len(selected_actions[i])

\* C13 as claimed: every evaluation call whose matrix has a row count
\* other than n_rounds, or columns that do not cover every logged position,
\* raises instead of returning.
C13_ShapeMismatchRaises ==
    (last_call /= None /\ last_call[1].op \in EvaluationOps
        /\ ~ShapeAgrees(last_call[1])) =>
            last_call[1].result.status = "raised"

\* The payload _create_estimator_inputs builds from a feedback, a matrix
\* and a regression model, field by field.
FreshPayload(payload, feedback, selected_actions, model) ==
    /\ payload.reward = feedback.reward
    /\ payload.pscore = feedback.pscore
    /\ payload.action_match =
          [i \in 1..feedback.n_rounds |->
              feedback.action[i] = selected_actions[i][feedback.position[i] + 1]]
    /\ payload.estimated_rewards_by_reg_model =
          IF model = None THEN None
          ELSE Some(RegressionModel_predict(model[1], feedback, selected_actions).value)

\* C14: a step that is a call of _create_estimator_inputs or of an
\* evaluation operation leaves the feedback, the estimator list, the
\* registry and the regression model of every orchestrator as they were;
\* every payload the call builds is made of the orchestrator's feedback and
\* of this call's matrix, whatever the call before was given; and a call
\* that repeats the call before it builds payloads of the same contents.
C14_CallsLeaveStateAlone ==
    [][(last_call' /= None /\ pc' = pc) =>
          /\ bandit_feedback' = bandit_feedback
          /\ ope_estimators' = ope_estimators
          /\ ope_estimators_' = ope_estimators_
          /\ regression_model' = regression_model
          /\ LET call == last_call'[1]
                 payloads == call.result.payloads
             IN \A p \in DOMAIN payloads :
                   FreshPayload(payloads[p], bandit_feedback'[call.orch],
                                call.args.selected_actions,
                                regression_model'[call.orch])
          /\ (last_call /= None /\ previous' = "repeat") =>
                last_call'[1].result.payloads = last_call[1].result.payloads]_vars

\* C14 happens: _create_estimator_inputs is called a second time with the
\* same matrix on an orchestrator that holds a regression model, and
\* returns a payload.
C14_Witness ==
    /\ IsCall("_create_estimator_inputs")
    /\ Returned
    /\ previous = "repeat"
    /\ regression_model[1] /= None
    /\ Len(last_call[1].result.payloads) = 1

\* The last thing a call did was to invoke an estimator that needs
\* estimated_rewards_by_reg_model.
EndsAtModelDependentEstimator(call) ==
    LET events == call.result.events IN
    /\ events /= <<>>
    /\ events[Len(events)].est /= 0
    /\ ope_estimators[call.orch][events[Len(events)].est].kind = "dm"

\* C15: an orchestrator given no regression model can always be
\* constructed, whatever its estimators, and construction registers them;
\* in every evaluation call the payload holds
\* estimated_rewards_by_reg_model exactly when the orchestrator holds a
\* regression model; and without a model a call raises TypeError exactly
\* when the last estimator it invoked is one that needs the field, the
\* only other failure being the division by a zero ground truth.
C15_MissingModelSurfacesAtUse ==
    \A o \in DOMAIN pc :
        /\ (pc[o] = "new" /\ regression_model[o] = None) => ENABLED PostInit(o)
        /\ (pc[o] = "ready" /\ regression_model[o] = None) =>
              ope_estimators_[o] =
                 RegisterEstimators(ope_estimators[o], Len(ope_estimators[o]))
        /\ (last_call /= None /\ last_call[1].orch = o
                /\ last_call[1].op \in EvaluationOps) =>
              LET call == last_call[1] IN
              /\ \A p \in DOMAIN call.result.payloads :
                    (call.result.payloads[p].estimated_rewards_by_reg_model /= None)
                       <=> (regression_model[o] /= None)
              /\ regression_model[o] = None =>
                    /\ call.result.exc \in {"", "TypeError", "ZeroDivisionError"}
                    /\ (call.result.exc = "TypeError") <=>
                          EndsAtModelDependentEstimator(call)
                    /\ Count(call.result.events, "predict") = 0

\* C15 happens: without a regression model, point estimation over the
\* inverse probability weighting and the direct method invokes the first,
\* which is handed a payload without the field and succeeds, and raises at
\* the second.
C15_Witness ==
    /\ regression_model[1] = None
    /\ ope_estimators[1] = <<IPW, DM>>
    /\ IsCall("estimate_policy_values")
    /\ last_call[1].result.exc = "TypeError"
    /\ Count(last_call[1].result.events, "estimate_policy_value") = 2
    /\ last_call[1].result.payloads[1].estimated_rewards_by_reg_model = None

\* C16: of two orchestrators whose estimator lists are permutations of one
\* another, with pairwise distinct names, estimate_policy_values called on
\* one and then on the other with the same selected_actions ends the same
\* way: both raise the same exception, or both return, the same value under
\* every name; and what each returns lists the names in the order of its
\* own estimator list.
C16_OrderDoesNotMatter ==
    [][(/\ last_call /= None /\ last_call' /= None
        /\ last_call[1].op = "estimate_policy_values"
        /\ last_call'[1].op = "estimate_policy_values"
        /\ last_call'[1].orch /= last_call[1].orch
        /\ last_call'[1].args = last_call[1].args)
       => LET before == last_call[1].result
              after == last_call'[1].result
              estimators == ope_estimators[last_call'[1].orch]
          IN /\ after.status = before.status
             /\ after.exc = before.exc
             /\ after.status = "ok" =>
                   /\ Range(after.value) = Range(before.value)
                   /\ Len(after.value) = Len(estimators)
                   /\ \A k \in DOMAIN after.value :
                         after.value[k][1] = estimators[k].estimator_name]_vars

\* C16 happens: the second orchestrator, whose list is the first one's
\* reversed, returns its estimates right after the first did for the same
\* selected_actions, and the two estimators' values differ.
C16_Witness ==
    /\ DOMAIN pc = {1, 2}
    /\ ope_estimators[1] = <<IPW, Unweighted>>
    /\ ope_estimators[2] = <<Unweighted, IPW>>
    /\ IsCall("estimate_policy_values")
    /\ Returned
    /\ previous = "twin"
    /\ last_call[1].orch = 2
    /\ last_call[1].result.value[1][2] /= last_call[1].result.value[2][2]

====
